---- MODULE Spec2Model ----
(***************************************************************************)
(* Koa middleware that inlines external import maps:                       *)
(*   libs/koa-middleware-sst-html-polyfill-external-import-map/src/index.ts *)
(*                                                                         *)
(* Text is a sequence of element tokens; its UTF-8 form is a sequence of   *)
(* bytes, two per token.  A file-system path is a record of an "absolute"  *)
(* flag and its segments.  JSON text is a sequence of characters.          *)
(***************************************************************************)
EXTENDS Integers, Sequences, FiniteSets, TLC

\* ------------------------------------------------------------------ bounds

\* Most elements in a served HTML document.
MaxElements == 2

\* Most changes made to the import-map files while the server runs.
MaxWrites == 1

\* The requests the host delivers, each handled once.
Requests == {"r1", "r2"}

\* ------------------------------------------------------------------- paths

Path(abs, segs) == [abs |-> abs, segs |-> segs]

\* path-browserify normalizeStringPosix: drops "." and empty segments and
\* resolves ".." against the segment before it.
RECURSIVE NormalizeSegs(_, _, _)
NormalizeSegs(segs, acc, allowAboveRoot) ==
    IF segs = <<>> THEN acc
    ELSE LET s == Head(segs)
             rest == Tail(segs)
         IN  IF s = "." \/ s = ""
               THEN NormalizeSegs(rest, acc, allowAboveRoot)
             ELSE IF s = ".."
               THEN IF acc # <<>> /\ acc[Len(acc)] # ".."
                      THEN NormalizeSegs(rest, SubSeq(acc, 1, Len(acc) - 1), allowAboveRoot)
                    ELSE IF allowAboveRoot
                      THEN NormalizeSegs(rest, Append(acc, ".."), allowAboveRoot)
                    ELSE NormalizeSegs(rest, acc, allowAboveRoot)
             ELSE NormalizeSegs(rest, Append(acc, s), allowAboveRoot)

\* Path.isAbsolute(p)
PathIsAbsolute(p) == p.abs

\* The empty string, which Path.join skips.
PathIsEmpty(p) == ~p.abs /\ p.segs = <<>>

\* Path.join(a, b): a + "/" + b, normalized; absolute when a is.
PathJoin(a, b) ==
    IF PathIsEmpty(a)
      THEN Path(b.abs, NormalizeSegs(b.segs, <<>>, ~b.abs))
      ELSE Path(a.abs, NormalizeSegs(a.segs \o b.segs, <<>>, ~a.abs))

\* Path.dirname(p)
PathDirname(p) ==
    IF Len(p.segs) <= 1 THEN Path(p.abs, <<>>)
    ELSE Path(p.abs, SubSeq(p.segs, 1, Len(p.segs) - 1))

\* process.cwd(), which Path.resolve prepends when no argument is absolute.
Cwd == <<"srv">>

\* Path.resolve(a, b): right to left until an absolute path is built.
PathResolve(a, b) ==
    IF b.abs THEN Path(TRUE, NormalizeSegs(b.segs, <<>>, FALSE))
    ELSE IF a.abs THEN Path(TRUE, NormalizeSegs(a.segs \o b.segs, <<>>, FALSE))
    ELSE Path(TRUE, NormalizeSegs(Cwd \o a.segs \o b.segs, <<>>, FALSE))

\* options.servedDirectoryAbsolutePath: "/site"
ServedRoot == Path(TRUE, <<"site">>)

\* Request urls: "/" and "/pages/a.html".
RootUrl == Path(TRUE, <<>>)
PageUrl == Path(TRUE, <<"pages", "a.html">>)
Urls == {RootUrl, PageUrl}

\* options.getFilePathOfRequestUrl of the example application: "/" is served
\* from "/index.html", every other url from the file of the same path.
GetFilePathOfRequestUrl(url) ==
    IF url = RootUrl THEN Path(TRUE, <<"index.html">>) ELSE url

\* src attribute values: "/maps/m.json" and "../maps/m.json".
AbsSrc == Path(TRUE, <<"maps", "m.json">>)
RelSrc == Path(FALSE, <<"..", "maps", "m.json">>)

\* The files an import can reach: "/site/maps/m.json" and "/maps/m.json".
SiteMap == Path(TRUE, <<"site", "maps", "m.json">>)
OuterMap == Path(TRUE, <<"maps", "m.json">>)
FilePaths == {SiteMap, OuterMap}

\* -------------------------------------------------------------------- JSON

NoFile == [exists |-> FALSE, text |-> <<>>]
File(text) == [exists |-> TRUE, text |-> text]

\* File contents: none, a truncated document, {"a"} pretty-printed, and a
\* document whose string holds an ampersand.
BadJson == File(<<"{">>)
PrettyA == File(<<"{", " ", "a", " ", "}">>)
CompactAmp == File(<<"{", "&", "}">>)
FileContents == {NoFile, BadJson, PrettyA, CompactAmp}

RECURSIVE StripSpace(_)
StripSpace(text) ==
    IF text = <<>> THEN <<>>
    ELSE IF Head(text) = " " THEN StripSpace(Tail(text))
    ELSE <<Head(text)>> \o StripSpace(Tail(text))

\* JSON.parse: one object, braces balanced; the value is its members.
JsonParse(text) ==
    LET t == StripSpace(text)
        n == Len(t)
    IN  IF /\ n >= 2
           /\ t[1] = "{"
           /\ t[n] = "}"
           /\ \A k \in 2..(n - 1) : t[k] \notin {"{", "}"}
          THEN [ok |-> TRUE, val |-> SubSeq(t, 2, n - 1)]
          ELSE [ok |-> FALSE, val |-> <<>>]

\* JSON.stringify(value): the compact text.
JsonStringify(val) == <<"{">> \o val \o <<"}">>

\* The text escaping the rewriter applies to content that is not html.
RECURSIVE EscapeText(_)
EscapeText(text) ==
    IF text = <<>> THEN <<>>
    ELSE LET c == Head(text)
             e == IF c = "&" THEN "&amp;"
                  ELSE IF c = "<" THEN "&lt;"
                  ELSE IF c = ">" THEN "&gt;"
                  ELSE c
         IN  <<e>> \o EscapeText(Tail(text))

\* ---------------------------------------------------------------- elements

NoType == [has |-> FALSE, val |-> ""]
Type(t) == [has |-> TRUE, val |-> t]
NoSrc == [has |-> FALSE, val |-> Path(FALSE, <<>>)]
Src(p) == [has |-> TRUE, val |-> p]

Element(tag, type, src, content) ==
    [tag |-> tag, type |-> type, src |-> src, content |-> content]

\* <script type="importmap" src=...></script>
External(p) == Element("script", Type("importmap"), Src(p), <<>>)
\* <script type="importmap">{"a"}</script>
Inline == Element("script", Type("importmap"), NoSrc, <<"{", "a", "}">>)
\* <script type="module" src="/maps/m.json"></script>
ModuleScript == Element("script", Type("module"), Src(AbsSrc), <<>>)
\* <script src="/maps/m.json"></script>
PlainScript == Element("script", NoType, Src(AbsSrc), <<>>)
\* <div type="importmap" src="/maps/m.json"></div>
Div == Element("div", Type("importmap"), Src(AbsSrc), <<>>)

ElementKinds ==
    {External(AbsSrc), External(RelSrc), Inline, ModuleScript, PlainScript, Div}

\* U+FFFD, what decoding leaves for a byte that is no character.
Replacement == Element("#text", NoType, NoSrc, <<"?">>)

\* Documents of at most n elements.
RECURSIVE DocsUpTo(_)
DocsUpTo(n) ==
    IF n = 0 THEN {<<>>}
    ELSE LET shorter == DocsUpTo(n - 1)
         IN  shorter \cup {Append(d, e) : d \in shorter, e \in ElementKinds}

Docs == DocsUpTo(MaxElements)

\* ------------------------------------------------------------------- UTF-8

Byte(tok, half) == [tok |-> tok, half |-> half]

RECURSIVE Utf8Encode(_)
Utf8Encode(text) ==
    IF text = <<>> THEN <<>>
    ELSE <<Byte(Head(text), 1), Byte(Head(text), 2)>> \o Utf8Encode(Tail(text))

\* toString("utf8") / Blob.text(): a lead byte followed by its trail byte is
\* a character, any other byte is replaced.
RECURSIVE Utf8Decode(_)
Utf8Decode(bytes) ==
    IF bytes = <<>> THEN <<>>
    ELSE IF /\ Len(bytes) >= 2
            /\ bytes[1].half = 1
            /\ bytes[2].half = 2
            /\ bytes[2].tok = bytes[1].tok
      THEN <<bytes[1].tok>> \o Utf8Decode(Tail(Tail(bytes)))
      ELSE <<Replacement>> \o Utf8Decode(Tail(bytes))

\* Buffer.concat(chunks)
RECURSIVE BufferConcat(_)
BufferConcat(chunks) ==
    IF chunks = <<>> THEN <<>>
    ELSE Head(chunks) \o BufferConcat(Tail(chunks))

\* --------------------------------------------------------------- responses

Body(kind, text, bytes, data, fails) ==
    [kind |-> kind, text |-> text, bytes |-> bytes, data |-> data, fails |-> fails]

\* typeof body === "string"
StringBody(text) == Body("string", text, <<>>, <<>>, FALSE)
\* body instanceof Uint8Array (a Buffer is one)
BufferBody(bytes) == Body("Uint8Array", <<>>, bytes, <<>>, FALSE)
\* body instanceof ReadStream: the chunks it will emit, and whether it then
\* emits "error" instead of "end"
StreamBody(data, fails) == Body("ReadStream", <<>>, <<>>, data, fails)
\* anything else: null, an object, a stream that is no fs.ReadStream
OtherBody == Body("other", <<>>, <<>>, <<>>, FALSE)
NoBody == Body("none", <<>>, <<>>, <<>>, FALSE)

Response(type, body) == [type |-> type, body |-> body]

Types == {"text/html", "text/plain"}

\* The ways a stream cuts its bytes into two chunks.
Splits(bytes) ==
    {<<SubSeq(bytes, 1, k), SubSeq(bytes, k + 1, Len(bytes))>> :
        k \in 0..(IF Len(bytes) = 0 THEN 0 ELSE Len(bytes) - 1)}

\* The bodies in which the rest of the pipeline can hand over a document.
BodiesOf(doc) ==
    {StringBody(doc), BufferBody(Utf8Encode(doc)), OtherBody,
     StreamBody(<<Utf8Encode(doc)>>, TRUE)}
        \cup {StreamBody(s, FALSE) : s \in Splits(Utf8Encode(doc))}

\* ------------------------------------------------------------------- state

VARIABLES
    options,      \* MiddlewareOptions given to createMiddleware
    files,        \* the file system: import-map path -> content
    moduleCache,  \* the runtime's module registry, filled by import()
    cacheWriter,  \* history: the request whose import() filled each entry
    page,         \* the HTML document the rest of the pipeline serves
    republished,  \* history: page is the output of an earlier transform
    writes,       \* history: number of file changes so far
    pending,      \* requests the host has not delivered yet
    req           \* per request: the middleware invocation's locals and ctx

vars == <<options, files, moduleCache, cacheWriter, page, republished, writes,
          pending, req>>

NoModule == [loaded |-> FALSE, val |-> <<>>]
Module(val) == [loaded |-> TRUE, val |-> val]

Idle ==
    [pc |-> "idle", url |-> RootUrl,
     down |-> Response("", NoBody), resp |-> Response("", NoBody),
     doc |-> <<>>, rerun |-> FALSE,
     htmlPath |-> Path(FALSE, <<>>), chunks |-> <<>>,
     els |-> <<>>, i |-> 1, out |-> <<>>, spec |-> Path(FALSE, <<>>),
     err |-> "none", loads |-> <<>>, log |-> <<>>]

\* shouldRun is absent, or a predicate true of "/pages/a.html" only.
ShouldRunChoices == {"absent", "pagesOnly"}

InitCommon ==
    /\ options \in [servedDirectoryAbsolutePath : {ServedRoot},
                    shouldRun : ShouldRunChoices]
    /\ moduleCache = [p \in FilePaths |-> NoModule]
    /\ cacheWriter = [p \in FilePaths |-> "none"]
    /\ republished = FALSE
    /\ writes = 0
    /\ req = [r \in Requests |-> Idle]

\* ----------------------------------------------------------- the middleware

\* ctx.response.is("text/html")
IsHtml(type) == type = "text/html"

\* options.shouldRun?.(ctx) ?? true
ShouldRun(url) ==
    IF options.shouldRun = "absent" THEN TRUE ELSE url = PageUrl

GateIgnoresShouldRun(q) == IsHtml(q.resp.type)

\* lines 128-135: the dispatch runs for an HTML response that shouldRun admits.
GatePasses(q) == IsHtml(q.resp.type) /\ ShouldRun(q.url)

HtmlFilePathWrtServedDirectory(url) == GetFilePathOfRequestUrl(url)

\* lines 138-141
RequestHtmlFileAbsolutePath(url) ==
    PathJoin(options.servedDirectoryAbsolutePath, GetFilePathOfRequestUrl(url))

BodyCaseCoercing(body) ==
    IF body.kind \in {"Uint8Array", "ReadStream"} THEN body.kind ELSE "string"

\* lines 144, 154, 164, 175: the branch the body takes.
BodyCase(body) ==
    IF body.kind \in {"string", "Uint8Array", "ReadStream"} THEN body.kind
    ELSE "unsupported"

\* new Response(x): the bytes the rewriter is given.
NewResponse(body) ==
    IF body.kind = "string" THEN Utf8Encode(body.text) ELSE body.bytes

RECURSIVE DecodeEach(_)
DecodeEach(chunks) ==
    IF chunks = <<>> THEN <<>>
    ELSE Utf8Decode(Head(chunks)) \o DecodeEach(Tail(chunks))

\* readStreamToString, line 43
ReadStreamToString(chunks) == Utf8Decode(BufferConcat(chunks))

\* lines 65-83: the element is an importmap script with a src.
Matches(el) ==
    /\ el.tag = "script"
    /\ el.type.has
    /\ el.type.val = "importmap"
    /\ el.src.has

\* lines 86-99
ExternalImportMapAbsolutePath(htmlFilePath, src) ==
    IF PathIsAbsolute(src)
      THEN PathJoin(options.servedDirectoryAbsolutePath, src)
      ELSE PathResolve(PathDirname(htmlFilePath), src)

InlinedKeepingSrc(el, val) ==
    [el EXCEPT !.content = EscapeText(JsonStringify(val))]

\* lines 112-113: removeAttribute("src"), setInnerContent(JSON.stringify(..))
Inlined(el, val) ==
    [el EXCEPT !.src = NoSrc, !.content = EscapeText(JsonStringify(val))]

\* What the file system holds at a path.
ReadFile(p) == IF p \in DOMAIN files THEN files[p] ELSE NoFile

Cached(p) == p \in DOMAIN moduleCache /\ moduleCache[p].loaded

\* await import(path, {assert: {type: "json"}}): the registry's module when
\* the path was imported before, else the file read and parsed.
ImportResult(p) ==
    IF Cached(p) THEN [ok |-> TRUE, val |-> moduleCache[p].val]
    ELSE IF ~ReadFile(p).exists THEN [ok |-> FALSE, val |-> <<>>]
    ELSE JsonParse(ReadFile(p).text)

\* htmlRewriter.transform(response): the rewriter starts on the document.
StartTransform(q, bytes) ==
    [q EXCEPT !.pc = "transform", !.els = Utf8Decode(bytes), !.i = 1, !.out = <<>>]

Set(r, q) == req' = [req EXCEPT ![r] = q]

EnvUnchanged ==
    UNCHANGED <<options, files, moduleCache, cacheWriter, page, republished, writes>>

ReceiveWithoutNext(r, url) ==
    /\ r \in pending
    /\ req[r].pc = "idle"
    /\ pending' = pending \ {r}
    /\ Set(r, [req[r] EXCEPT !.pc = "gate", !.url = url])
    /\ EnvUnchanged

\* line 125-126: the host invokes the middleware, which calls next().
Receive(r, url) ==
    /\ r \in pending
    /\ req[r].pc = "idle"
    /\ pending' = pending \ {r}
    /\ Set(r, [req[r] EXCEPT !.pc = "next", !.url = url, !.log = <<"next">>])
    /\ EnvUnchanged

\* The rest of the pipeline completes with a response.
NextReturns(r, type, body) ==
    /\ req[r].pc = "next"
    /\ body \in BodiesOf(page)
    /\ Set(r, [req[r] EXCEPT !.pc = "gate",
                             !.down = Response(type, body),
                             !.resp = Response(type, body),
                             !.doc = page,
                             !.rerun = republished,
                             !.log = Append(@, "nextDone")])
    /\ UNCHANGED pending
    /\ EnvUnchanged

\* The rest of the pipeline throws: await next() rethrows.
NextThrows(r) ==
    /\ req[r].pc = "next"
    /\ Set(r, [req[r] EXCEPT !.pc = "failed", !.err = "downstream",
                             !.log = Append(@, "nextThrew")])
    /\ UNCHANGED pending
    /\ EnvUnchanged

\* lines 128-179, up to the first await of the branch taken.
Gate(r) ==
    LET q == req[r]
        checked == IF IsHtml(q.resp.type) /\ options.shouldRun # "absent"
                     THEN <<"is", "shouldRun">> ELSE <<"is">>
        path == RequestHtmlFileAbsolutePath(q.url)
        q1 == [q EXCEPT !.htmlPath = path,
                        !.log = @ \o checked \o <<"getFilePath", "readBody">>]
        case == BodyCase(q.resp.body)
    IN  /\ q.pc = "gate"
        /\ IF ~GatePasses(q)
             THEN Set(r, [q EXCEPT !.pc = "done", !.log = @ \o checked])
           ELSE IF case = "string" \/ case = "Uint8Array"
             THEN Set(r, StartTransform(q1, NewResponse(q.resp.body)))
           ELSE IF case = "ReadStream"
             THEN Set(r, [q1 EXCEPT !.pc = "drain", !.chunks = <<>>])
           ELSE Set(r, [q1 EXCEPT !.pc = "failed", !.err = "unsupported"])
        /\ UNCHANGED pending
        /\ EnvUnchanged

\* line 41: a "data" event.
StreamData(r) ==
    LET q == req[r]
    IN  /\ q.pc = "drain"
        /\ Len(q.chunks) < Len(q.resp.body.data)
        /\ Set(r, [q EXCEPT !.chunks = Append(@, q.resp.body.data[Len(q.chunks) + 1])])
        /\ UNCHANGED pending
        /\ EnvUnchanged

\* line 43 and lines 165-170: "end", then the transform of the string read.
StreamEnd(r) ==
    LET q == req[r]
    IN  /\ q.pc = "drain"
        /\ Len(q.chunks) = Len(q.resp.body.data)
        /\ ~q.resp.body.fails
        /\ Set(r, StartTransform(q, NewResponse(StringBody(ReadStreamToString(q.chunks)))))
        /\ UNCHANGED pending
        /\ EnvUnchanged

\* line 42: "error" rejects, and the middleware rethrows.
StreamError(r) ==
    LET q == req[r]
    IN  /\ q.pc = "drain"
        /\ q.resp.body.fails
        /\ Set(r, [q EXCEPT !.pc = "failed", !.err = "stream"])
        /\ UNCHANGED pending
        /\ EnvUnchanged

\* lines 64-103: the handler runs on the next element, up to its import().
HandleElement(r) ==
    LET q == req[r]
        el == q.els[q.i]
    IN  /\ q.pc = "transform"
        /\ q.i <= Len(q.els)
        /\ IF Matches(el)
             THEN Set(r, [q EXCEPT !.pc = "import",
                                   !.spec = ExternalImportMapAbsolutePath(q.htmlPath, el.src.val),
                                   !.log = Append(@, "import")])
             ELSE Set(r, [q EXCEPT !.out = Append(@, el), !.i = @ + 1])
        /\ UNCHANGED pending
        /\ EnvUnchanged

\* lines 102-113: the import settles; on success the element is rewritten,
\* on failure the handler throws and the middleware with it.
ImportSettles(r) ==
    LET q == req[r]
        p == q.spec
        res == ImportResult(p)
        load == [path |-> p, seen |-> ReadFile(p), ok |-> res.ok, val |-> res.val,
                 from |-> IF Cached(p) THEN cacheWriter[p] ELSE "file"]
        q1 == [q EXCEPT !.loads = Append(@, load)]
    IN  /\ q.pc = "import"
        /\ IF res.ok
             THEN /\ Set(r, [q1 EXCEPT !.pc = "transform",
                                       !.out = Append(@, Inlined(q.els[q.i], res.val)),
                                       !.i = @ + 1])
                  /\ IF Cached(p) \/ p \notin FilePaths
                       THEN UNCHANGED <<moduleCache, cacheWriter>>
                       ELSE /\ moduleCache' = [moduleCache EXCEPT ![p] = Module(res.val)]
                            /\ cacheWriter' = [cacheWriter EXCEPT ![p] = r]
             ELSE /\ Set(r, [q1 EXCEPT !.pc = "failed", !.err = "load"])
                  /\ UNCHANGED <<moduleCache, cacheWriter>>
        /\ UNCHANGED <<options, files, page, republished, writes, pending>>

\* lines 150-153 (160-163, 171-174): the rewritten document as text becomes
\* the body, and the type is set.
Finish(r) ==
    LET q == req[r]
        transformedCode == Utf8Decode(Utf8Encode(q.out))
    IN  /\ q.pc = "transform"
        /\ q.i > Len(q.els)
        /\ Set(r, [q EXCEPT !.pc = "done",
                            !.resp = Response("text/html", StringBody(transformedCode))])
        /\ UNCHANGED pending
        /\ EnvUnchanged

\* -------------------------------------------------------------- environment

\* Somebody changes, creates or deletes an import-map file.
WriteFile(p, c) ==
    /\ writes < MaxWrites
    /\ files[p] # c
    /\ files' = [files EXCEPT ![p] = c]
    /\ writes' = writes + 1
    /\ UNCHANGED <<options, moduleCache, cacheWriter, page, republished, pending, req>>

\* The document a request was answered with is served from then on.
Republish(r) ==
    /\ req[r].pc = "done"
    /\ req[r].resp.body.kind = "string"
    /\ req[r].resp # req[r].down
    /\ ~republished
    /\ page' = req[r].resp.body.text
    /\ republished' = TRUE
    /\ UNCHANGED <<options, files, moduleCache, cacheWriter, writes, pending, req>>

Handle(r) ==
    \/ \E url \in Urls : Receive(r, url)
    \/ \E type \in Types, body \in BodiesOf(page) : NextReturns(r, type, body)
    \/ NextThrows(r)
    \/ Gate(r)
    \/ StreamData(r)
    \/ StreamEnd(r)
    \/ StreamError(r)
    \/ HandleElement(r)
    \/ ImportSettles(r)
    \/ Finish(r)

\* One request against files that do not change: every document and every
\* state of the files.
Init ==
    /\ InitCommon
    /\ page \in Docs
    /\ files \in [FilePaths -> FileContents]
    /\ pending = {"r1"}

Next == \E r \in Requests : Handle(r)

Spec == Init /\ [][Next]_vars

\* The pages of the running server: one external import map, and an inline
\* one followed by an external one.
ServerPages == {<<External(AbsSrc)>>, <<Inline, External(RelSrc)>>}

\* A server taking two requests, in any interleaving, while files change.
InitServer ==
    /\ InitCommon
    /\ options.shouldRun = "absent"
    /\ page \in ServerPages
    /\ files = [p \in FilePaths |-> PrettyA]
    /\ pending = Requests

NextServer ==
    \/ \E r \in Requests : Handle(r)
    \/ \E p \in FilePaths, c \in FileContents : WriteFile(p, c)
    \/ \E r \in Requests : Republish(r)

SpecServer == InitServer /\ [][NextServer]_vars

\* ------------------------------------------------------------ vocabulary

Past(q) == q.pc \notin {"idle", "next", "gate"}
Finished(q) == q.pc \in {"done", "failed"}

\* The rest of the pipeline completed with a response.
Completed(q) == Len(q.log) >= 2 /\ q.log[2] = "nextDone"

Logged(q, e) == \E k \in 1..Len(q.log) : q.log[k] = e

\* The completed response is HTML and the configured predicate, if any,
\* is true of the request.
Admitted(q) ==
    /\ q.down.type = "text/html"
    /\ options.shouldRun = "pagesOnly" => q.url = PageUrl

Supported(q) == q.down.body.kind \in {"string", "Uint8Array", "ReadStream"}

\* The element is a script of type importmap with a src attribute.
IsExternalImportMap(el) ==
    el.tag = "script" /\ el.type = Type("importmap") /\ el.src.has

RECURSIVE ExternalSrcs(_)
ExternalSrcs(doc) ==
    IF doc = <<>> THEN <<>>
    ELSE IF IsExternalImportMap(Head(doc))
      THEN <<Head(doc).src.val>> \o ExternalSrcs(Tail(doc))
      ELSE ExternalSrcs(Tail(doc))

\* The file a src names: under the served root when src is absolute, else
\* from the directory of the document's file inside the served root.
ExpectedPath(url, src) ==
    LET file == GetFilePathOfRequestUrl(url).segs
        dir == SubSeq(file, 1, Len(file) - 1)
    IN  IF src.abs
          THEN Path(TRUE, NormalizeSegs(<<"site">> \o src.segs, <<>>, FALSE))
          ELSE Path(TRUE, NormalizeSegs(<<"site">> \o dir \o src.segs, <<>>, FALSE))

Loadable(file) == file.exists /\ JsonParse(file.text).ok

\* ------------------------------------------------------------------ claims

\* C1: once the rest of the pipeline has completed, the dispatch runs exactly
\* when the response is HTML and shouldRun (true when absent) admits the
\* request; a request that is skipped ends with the body and the content
\* type the pipeline produced, and no import-map file is read for it.
C1_GateSkipsUntouched ==
    \A r \in Requests :
        LET q == req[r]
        IN  (Past(q) /\ Completed(q)) =>
              /\ Admitted(q) <=> Logged(q, "readBody")
              /\ ~Admitted(q) =>
                    /\ q.pc = "done"
                    /\ q.resp = q.down
                    /\ q.loads = <<>>
                    /\ ~Logged(q, "import")
                    /\ ~Logged(q, "getFilePath")

\* An HTML string body holding an external import map, skipped because
\* shouldRun is false of the request.
C1_Witness ==
    \E r \in Requests :
        LET q == req[r]
        IN  /\ q.pc = "done"
            /\ q.down.type = "text/html"
            /\ options.shouldRun = "pagesOnly"
            /\ q.url = RootUrl
            /\ q.down.body.kind = "string"
            /\ ExternalSrcs(q.doc) # <<>>
            /\ q.resp = q.down

\* The document the transform is to produce from the files as they are.
RECURSIVE ExpectedDocument(_, _)
ExpectedDocument(doc, url) ==
    IF doc = <<>> THEN <<>>
    ELSE LET el == Head(doc)
             file == ReadFile(ExpectedPath(url, el.src.val))
             new == IF IsExternalImportMap(el)
                      THEN Element(el.tag, el.type, NoSrc,
                                   JsonStringify(JsonParse(file.text).val))
                      ELSE el
         IN  <<new>> \o ExpectedDocument(Tail(doc), url)

\* C2: a transformed document is the served one with every external import
\* map script stripped of its src and given the compact JSON of its file as
\* content, and everything else unchanged.
C2_RewritesExactlyExternalImportMaps ==
    \A r \in Requests :
        LET q == req[r]
        IN  (q.pc = "done" /\ Logged(q, "readBody")) =>
              /\ q.resp.body.kind = "string"
              /\ q.resp.body.text = ExpectedDocument(q.doc, q.url)

\* C3: every import is of the file its element's src names: the served root
\* joined with an absolute src, a relative src resolved from the directory
\* of the requested document inside the served root.
C3_LoadsTheNamedFile ==
    \A r \in Requests :
        LET q == req[r]
            srcs == ExternalSrcs(q.doc)
            n == Len(q.loads)
        IN  /\ n <= Len(srcs)
            /\ \A k \in 1..n : q.loads[k].path = ExpectedPath(q.url, srcs[k])
            /\ q.pc = "import" =>
                  /\ n < Len(srcs)
                  /\ q.spec = ExpectedPath(q.url, srcs[n + 1])

\* Root /site, document /site/pages/a.html, src ../maps/m.json: the file
\* loaded is /site/maps/m.json; and an absolute src was loaded too.
C3_Witness ==
    \E r \in Requests :
        LET q == req[r]
        IN  /\ q.url = PageUrl
            /\ q.doc = <<External(RelSrc), External(AbsSrc)>>
            /\ Len(q.loads) = 2
            /\ q.loads[1].path = SiteMap
            /\ q.loads[2].path = SiteMap

\* C6: an admitted response whose body is no string, Uint8Array or
\* ReadStream fails the middleware with the unsupported-body error; the
\* transform never starts, no file is imported, and the response stays as
\* the pipeline produced it.
C6_UnsupportedBodyFails ==
    \A r \in Requests :
        LET q == req[r]
        IN  (Past(q) /\ Completed(q) /\ Admitted(q) /\ ~Supported(q)) =>
              /\ q.pc = "failed"
              /\ q.err = "unsupported"
              /\ q.resp = q.down
              /\ q.loads = <<>>
              /\ ~Logged(q, "import")

C6_Witness ==
    \E r \in Requests :
        LET q == req[r]
        IN  /\ q.pc = "failed"
            /\ q.err = "unsupported"
            /\ q.down.type = "text/html"
            /\ q.down.body.kind = "other"
            /\ ExternalSrcs(q.doc) # <<>>

\* C7: the middleware's first step is its one call of next(); it reads the
\* response type, evaluates shouldRun, maps the url, reads the body and
\* imports files only after next() has completed, it does not finish
\* without the call, and the response differs from what the pipeline
\* produced only after that.
C7_NextFirstAndOnce ==
    \A r \in Requests :
        LET q == req[r]
        IN  /\ q.pc # "idle" => (q.log # <<>> /\ q.log[1] = "next")
            /\ Cardinality({k \in 1..Len(q.log) : q.log[k] = "next"}) <= 1
            /\ \A k \in 1..Len(q.log) :
                  q.log[k] \in {"is", "shouldRun", "getFilePath", "readBody", "import"}
                      => (k > 2 /\ q.log[2] = "nextDone")
            /\ q.resp # q.down => Completed(q)
            /\ (q.pc = "next") = (q.log = <<"next">>)

\* A request transformed to the end: every kind of step was taken.
C7_Witness ==
    \E r \in Requests :
        LET q == req[r]
        IN  /\ q.pc = "done"
            /\ options.shouldRun = "pagesOnly"
            /\ q.resp # q.down
            /\ q.log = <<"next", "nextDone", "is", "shouldRun", "getFilePath",
                         "readBody", "import">>

\* What an import delivered: the path, the file as it was, and the module.
Delivered(load) ==
    [path |-> load.path, seen |-> load.seen, ok |-> load.ok, val |-> load.val]

Deliveries(q) == [k \in 1..Len(q.loads) |-> Delivered(q.loads[k])]

\* The body carries the whole document: a stream that ends, or memory.
Arrives(q) == Supported(q) /\ ~q.down.body.fails

C5_AllOrNothing ==
    \A r \in Requests :
        LET q == req[r]
        IN  /\ (\E k \in 1..Len(q.loads) : ~Loadable(q.loads[k].seen)) =>
                  /\ q.pc = "failed"
                  /\ q.err = "load"
                  /\ q.resp = q.down
            /\ q.resp # q.down =>
                  /\ q.pc = "done"
                  /\ Len(q.loads) = Len(ExternalSrcs(q.doc))
                  /\ \A k \in 1..Len(q.loads) : q.loads[k].ok

\* C8: a request served a document that an earlier transform produced
\* imports nothing and, when transformed, ends with that document as body.
C8_Idempotent ==
    \A r \in Requests :
        LET q == req[r]
        IN  q.rerun =>
              /\ q.loads = <<>>
              /\ q.pc # "import"
              /\ q.err # "load"
              /\ (q.pc = "done" /\ Logged(q, "readBody")) =>
                    q.resp.body = StringBody(q.doc)

\* The output of a transform that inlined an import map, transformed again.
C8_Witness ==
    \E r \in Requests :
        LET q == req[r]
        IN  /\ q.rerun
            /\ q.pc = "done"
            /\ Logged(q, "readBody")
            /\ q.doc \notin ServerPages
            /\ ExternalSrcs(q.doc) = <<>>
            /\ \E k \in 1..Len(q.doc) :
                  /\ q.doc[k].type = Type("importmap")
                  /\ q.doc[k].content # <<>>
            /\ q.down.body.kind = "Uint8Array"
            /\ q.resp.body = StringBody(q.doc)

\* C9: every import delivers what reading and parsing the file at that
\* moment gives.
C9_NoCaching ==
    \A r \in Requests :
        \A k \in 1..Len(req[r].loads) :
            LET load == req[r].loads[k]
            IN  /\ load.ok = Loadable(load.seen)
                /\ load.ok => load.val = JsonParse(load.seen.text).val

\* The document a request handled alone would end with, from the files as
\* its imports found them.
RECURSIVE AloneDocument(_, _)
AloneDocument(doc, seen) ==
    IF doc = <<>> THEN <<>>
    ELSE IF IsExternalImportMap(Head(doc)) /\ seen # <<>>
      THEN <<Inlined(Head(doc), JsonParse(Head(seen).text).val)>>
               \o AloneDocument(Tail(doc), Tail(seen))
      ELSE <<Head(doc)>> \o AloneDocument(Tail(doc), seen)

\* C10: nothing a request reads was written while another was handled, and
\* a finished request ends as it would have alone: transformed from the
\* files as it found them, or failed at the first one it could not load.
C10_RequestsIndependent ==
    \A r \in Requests :
        LET q == req[r]
            seen == [k \in 1..Len(q.loads) |-> q.loads[k].seen]
        IN  /\ \A k \in 1..Len(q.loads) : q.loads[k].from \in {"file", r}
            /\ (q.pc = "done" /\ Logged(q, "readBody")) =>
                  /\ \A k \in 1..Len(seen) : Loadable(seen[k])
                  /\ q.resp.body = StringBody(AloneDocument(q.doc, seen))
            /\ (q.pc = "failed" /\ q.err = "load") =>
                  ~Loadable(seen[Len(seen)])

====
